---- MODULE Spec2Model ----
(***************************************************************************)
(* A model of llvm/lib/Analysis/AssumeBundleQueries.cpp: the queries over  *)
(* the operand bundles of llvm.assume calls.                               *)
(*                                                                         *)
(* A Value is a record [kind, hi, lo].  A ConstantInt carries its 64-bit   *)
(* zero-extended value as two 32-bit words (hi, lo), so that a uint64_t is *)
(* the pair and an `unsigned` is the low word alone.                       *)
(***************************************************************************)
EXTENDS Integers, Sequences, FiniteSets, TLC

VARIABLES ir, uses, ac, call, outArgVal, map

vars == <<ir, uses, ac, call, outArgVal, map>>

-----------------------------------------------------------------------------
(* Bounds of the model *)

\* the largest number of operand bundles on one llvm.assume
MaxBundles == 3
\* the largest low word of an integer argument of a bundle
MaxLo == 2

-----------------------------------------------------------------------------
(* Values *)

Null == [kind |-> "null", hi |-> 0, lo |-> 0]
Ptr(n) == [kind |-> "ptr", hi |-> 0, lo |-> n]
ConstantInt(h, l) == [kind |-> "cint", hi |-> h, lo |-> l]
\* the i1 true that is the condition of an assume built for its bundles
TrueCond == [kind |-> "i1", hi |-> 0, lo |-> 1]
\* the called function, the last operand of the call
Callee == [kind |-> "fn", hi |-> 0, lo |-> 0]

p == Ptr(1)
q == Ptr(2)

isaConstantInt(V) == V.kind \in {"cint", "i1"}

\* ConstantInt::getZExtValue: the uint64_t, as its two 32-bit words
getZExtValue(C) == [hi |-> C.hi, lo |-> C.lo]

\* the integer arguments the bundles of the model carry: small ones, and one
\* that does not fit 32 bits
ArgConsts ==
  {ConstantInt(0, l) : l \in 0..MaxLo} \cup {ConstantInt(1, 1)}

-----------------------------------------------------------------------------
(* The attribute registry *)

ABA_WasOn == 0
ABA_Argument == 1

IgnoreBundleTag == "ignore"

getAttrKindFromName(Name) ==
  CASE Name = "align" -> "Alignment"
    [] Name = "nonnull" -> "NonNull"
    [] OTHER -> "None"

isExistingAttribute(Name) == getAttrKindFromName(Name) # "None"

doesAttrKindHaveArgument(Kind) == Kind = "Alignment"

-----------------------------------------------------------------------------
(* The llvm.assume call: its operand list and its bundle_op_infos.         *)
(* Operand 0 is the condition, then come the operands of the bundles, and  *)
(* the callee is last.  Begin and End are positions in the operand list,   *)
(* counted from 0; ops[k + 1] is operand k.                                *)

RECURSIVE BundleOps(_)
BundleOps(bundles) ==
  IF bundles = <<>> THEN <<>>
  ELSE Head(bundles).Inputs \o BundleOps(Tail(bundles))

RECURSIVE BundleOpInfos(_, _)
BundleOpInfos(bundles, begin) ==
  IF bundles = <<>> THEN <<>>
  ELSE <<[Tag |-> Head(bundles).Tag, Begin |-> begin,
          End |-> begin + Len(Head(bundles).Inputs)]>>
       \o BundleOpInfos(Tail(bundles), begin + Len(Head(bundles).Inputs))

MkAssume(cond, bundles) ==
  [ID |-> "assume",
   ops |-> <<cond>> \o BundleOps(bundles) \o <<Callee>>,
   bois |-> BundleOpInfos(bundles, 1)]

\* the sequences over S of length at most n
RECURSIVE SeqUpTo(_, _)
SeqUpTo(S, n) ==
  IF n = 0 THEN {<<>>}
  ELSE LET shorter == SeqUpTo(S, n - 1)
       IN shorter \cup {Append(s, x) : s \in {t \in shorter : Len(t) = n - 1}, x \in S}

-----------------------------------------------------------------------------
(* Bundle accessors *)

\* a mutant of bundleHasArgument: the slot after the last is taken for one
bundleHasArgumentOrEqual(BOI, Idx) == BOI.End - BOI.Begin >= Idx

bundleHasArgument(BOI, Idx) == BOI.End - BOI.Begin > Idx

\* the result of a failed assert, which aborts the process
AssertFail == [kind |-> "assert", hi |-> 0, lo |-> 0]

getValueFromBundleOpInfo(Assume, BOI, Idx) ==
  IF bundleHasArgument(BOI, Idx) THEN Assume.ops[BOI.Begin + Idx + 1]
  ELSE AssertFail

-----------------------------------------------------------------------------
(* hasAttributeInAssume *)

\* the outcomes of a call: it returns (ret, and the value written through
\* ArgVal, if any) or an assert of it fails
Returned(ret) == [pc |-> "return", ret |-> ret, wrote |-> FALSE, val |-> [hi |-> 0, lo |-> 0]]
ReturnedArg(val) == [pc |-> "return", ret |-> TRUE, wrote |-> TRUE, val |-> val]
Fatal == [pc |-> "fatal", ret |-> FALSE, wrote |-> FALSE, val |-> [hi |-> 0, lo |-> 0]]

\* a mutant of BundleMatches: IsOn is not compared with the WasOn operand
BundleMatchesAnyWasOn(Assume, BOI, IsOn, AttrName) ==
  BOI.Tag = AttrName

\* the two `continue`s of the loop: the bundle is the one asked for
BundleMatches(Assume, BOI, IsOn, AttrName) ==
  /\ BOI.Tag = AttrName
  /\ ~(IsOn # Null /\ (\/ BOI.End - BOI.Begin <= ABA_WasOn
                       \/ IsOn # getValueFromBundleOpInfo(Assume, BOI, ABA_WasOn)))

\* a mutant of OnMatch: a matching bundle without an Argument reports 0
OnMatchDefaultArgument(Assume, BOI, wantArg) ==
  IF ~wantArg THEN Returned(TRUE)
  ELSE IF ~(BOI.End - BOI.Begin > ABA_Argument) THEN ReturnedArg([hi |-> 0, lo |-> 0])
  ELSE IF ~isaConstantInt(getValueFromBundleOpInfo(Assume, BOI, ABA_Argument)) THEN Fatal
  ELSE ReturnedArg(getZExtValue(getValueFromBundleOpInfo(Assume, BOI, ABA_Argument)))

\* what the loop does with the bundle that matches
OnMatch(Assume, BOI, wantArg) ==
  IF ~wantArg THEN Returned(TRUE)
  ELSE IF ~(BOI.End - BOI.Begin > ABA_Argument) THEN Fatal
  ELSE IF ~isaConstantInt(getValueFromBundleOpInfo(Assume, BOI, ABA_Argument)) THEN Fatal
  ELSE ReturnedArg(getZExtValue(getValueFromBundleOpInfo(Assume, BOI, ABA_Argument)))

\* a mutant of hasAttributeScan: a later matching bundle replaces an earlier one
RECURSIVE hasAttributeScanLast(_, _, _, _, _)
hasAttributeScanLast(Assume, IsOn, AttrName, wantArg, i) ==
  IF i > Len(Assume.bois) THEN Returned(FALSE)
  ELSE LET rest == hasAttributeScanLast(Assume, IsOn, AttrName, wantArg, i + 1)
       IN IF BundleMatches(Assume, Assume.bois[i], IsOn, AttrName) /\ ~rest.ret
          THEN OnMatch(Assume, Assume.bois[i], wantArg)
          ELSE rest

\* a mutant of hasAttributeScan: the argument is stored before IsOn is compared
RECURSIVE hasAttributeScanEarlyWrite(_, _, _, _, _)
hasAttributeScanEarlyWrite(Assume, IsOn, AttrName, wantArg, i) ==
  IF i > Len(Assume.bois) THEN Returned(FALSE)
  ELSE IF BundleMatches(Assume, Assume.bois[i], IsOn, AttrName)
  THEN OnMatch(Assume, Assume.bois[i], wantArg)
  ELSE LET rest == hasAttributeScanEarlyWrite(Assume, IsOn, AttrName, wantArg, i + 1)
           early == OnMatch(Assume, Assume.bois[i], wantArg)
       IN IF Assume.bois[i].Tag = AttrName /\ early.wrote /\ ~rest.wrote /\ rest.pc = "return"
          THEN [rest EXCEPT !.wrote = TRUE, !.val = early.val]
          ELSE rest

\* the loop over bundle_op_infos(), from bundle i on
RECURSIVE hasAttributeScan(_, _, _, _, _)
hasAttributeScan(Assume, IsOn, AttrName, wantArg, i) ==
  IF i > Len(Assume.bois) THEN Returned(FALSE)
  ELSE IF BundleMatches(Assume, Assume.bois[i], IsOn, AttrName)
  THEN OnMatch(Assume, Assume.bois[i], wantArg)
  ELSE hasAttributeScan(Assume, IsOn, AttrName, wantArg, i + 1)

hasAttributeInAssume(Assume, IsOn, AttrName, wantArg) ==
  IF ~isExistingAttribute(AttrName) THEN Fatal
  ELSE IF ~(~wantArg \/ doesAttrKindHaveArgument(getAttrKindFromName(AttrName))) THEN Fatal
  ELSE IF Assume.bois = <<>> THEN Returned(FALSE)
  ELSE hasAttributeScan(Assume, IsOn, AttrName, wantArg, 1)

-----------------------------------------------------------------------------
(* The callers of hasAttributeInAssume *)

Tags == {"align", "nonnull", IgnoreBundleTag}

\* what the caller's uint64_t holds before the call; no bundle carries it
SlotBefore == [hi |-> 0, lo |-> MaxLo + 5]

NoCall == [op |-> "none", pc |-> "idle"]

EmptyMap == <<>>

\* the bundles of the assumes hasAttributeInAssume is asked about
HasBundles ==
  {[Tag |-> t, Inputs |-> in] :
     t \in {"align", "nonnull"},
     in \in {<<>>, <<p>>, <<q>>} \cup {<<p, c>> : c \in ArgConsts}}

InitHas ==
  /\ ir \in {<<MkAssume(TrueCond, bs)>> : bs \in SeqUpTo(HasBundles, MaxBundles)}
  /\ uses = <<>>
  /\ ac = <<>>
  /\ call = NoCall
  /\ outArgVal = SlotBefore
  /\ map = EmptyMap

CallHasAttributeInAssume ==
  /\ call.pc = "idle"
  /\ \E IsOn \in {Null, p, q}, AttrName \in Tags, wantArg \in BOOLEAN :
       LET r == hasAttributeInAssume(ir[1], IsOn, AttrName, wantArg)
       IN /\ call' = [op |-> "hasAttributeInAssume", pc |-> r.pc, ret |-> r.ret,
                      Assume |-> 1, IsOn |-> IsOn, AttrName |-> AttrName,
                      wantArg |-> wantArg]
          /\ outArgVal' = IF r.wrote THEN r.val ELSE outArgVal
  /\ UNCHANGED <<ir, uses, ac, map>>

NextHas == CallHasAttributeInAssume

SpecHas == InitHas /\ [][NextHas]_vars

-----------------------------------------------------------------------------
(* The claims about hasAttributeInAssume, under SpecHas *)

SlotCount(BOI) == BOI.End - BOI.Begin
Slot(Assume, BOI, k) == Assume.ops[BOI.Begin + k + 1]

\* bundle i of Assume has the tag asked for and, when IsOn is given, a WasOn
\* slot that holds IsOn
Matching(Assume, IsOn, AttrName) ==
  {i \in 1..Len(Assume.bois) :
     /\ Assume.bois[i].Tag = AttrName
     /\ IsOn # Null =>
          /\ SlotCount(Assume.bois[i]) > 0
          /\ Slot(Assume, Assume.bois[i], 0) = IsOn}

FirstOf(S) == CHOOSE i \in S : \A j \in S : i <= j

HasReturned == call.op = "hasAttributeInAssume" /\ call.pc = "return"

\* C1: when hasAttributeInAssume is given an output slot and returns true, the
\* slot holds the Argument of the first bundle, in stored order, that matches
\* AttrName (and IsOn), whatever later matching bundles carry.
C1_FirstMatchArgument ==
  (HasReturned /\ call.ret /\ call.wantArg) =>
     LET M == Matching(ir[call.Assume], call.IsOn, call.AttrName)
         B == ir[call.Assume].bois[FirstOf(M)]
     IN /\ M # {}
        /\ SlotCount(B) > 1
        /\ outArgVal = [hi |-> Slot(ir[call.Assume], B, 1).hi,
                        lo |-> Slot(ir[call.Assume], B, 1).lo]

\* several bundles match, and a later one carries another argument than the first
C1_Witness ==
  /\ HasReturned /\ call.ret /\ call.wantArg
  /\ LET A == ir[call.Assume]
         M == Matching(A, call.IsOn, call.AttrName)
     IN /\ Cardinality(M) >= 2
        /\ \E j \in M : /\ j # FirstOf(M)
                        /\ SlotCount(A.bois[j]) > 1
                        /\ Slot(A, A.bois[j], 1) # Slot(A, A.bois[FirstOf(M)], 1)
                        /\ Slot(A, A.bois[j], 1).lo < Slot(A, A.bois[FirstOf(M)], 1).lo

\* C2: hasAttributeInAssume returns true exactly when some bundle has the tag
\* AttrName and, when IsOn is given, has a WasOn slot holding IsOn; a bundle
\* with the tag and no WasOn slot matches only when IsOn is not given.
C2_TrueIffSomeBundleMatches ==
  call.op = "hasAttributeInAssume" =>
     LET M == Matching(ir[call.Assume], call.IsOn, call.AttrName)
     IN /\ call.pc = "return" => (call.ret <=> M # {})
        \* the call returns unless the caller breaks the contract
        /\ call.pc = "fatal" <=>
              \/ call.AttrName \notin {"align", "nonnull"}
              \/ call.wantArg /\ call.AttrName # "align"
              \/ call.wantArg /\ M # {}
                   /\ SlotCount(ir[call.Assume].bois[FirstOf(M)]) <= 1

\* IsOn is given, the only bundles with the tag have no WasOn slot, and the
\* call returned false
C2_Witness ==
  /\ HasReturned /\ ~call.ret /\ call.IsOn # Null
  /\ \E i \in 1..Len(ir[call.Assume].bois) :
        /\ ir[call.Assume].bois[i].Tag = call.AttrName
        /\ SlotCount(ir[call.Assume].bois[i]) = 0

\* C3: a call of hasAttributeInAssume that does not return true leaves the
\* output slot as it was, and no call changes the assumes or the map.
C3_WritesOnlyOnTrue ==
  [][(call'.op = "hasAttributeInAssume" /\ call' # call) =>
        /\ (~(call'.pc = "return" /\ call'.ret) => outArgVal' = outArgVal)
        /\ ir' = ir
        /\ uses' = uses
        /\ ac' = ac
        /\ map' = map]_vars

\* the call returned false although a bundle with the tag carries an argument
\* that could have been stored, and the slot holds what it held before
C3_Witness ==
  /\ HasReturned /\ ~call.ret /\ call.wantArg
  /\ outArgVal = SlotBefore
  /\ \E i \in 1..Len(ir[call.Assume].bois) :
        /\ ir[call.Assume].bois[i].Tag = call.AttrName
        /\ SlotCount(ir[call.Assume].bois[i]) > 1

-----------------------------------------------------------------------------
(* fillMapFromAssume *)

\* the most calls of fillMapFromAssume made on one map
MaxCalls == 3

\* `unsigned Val = ...->getZExtValue()`: the low 32 bits of the uint64_t
ToUnsigned(U64) == U64.lo

uMin(a, b) == IF a <= b THEN a ELSE b
uMax(a, b) == IF a >= b THEN a ELSE b

\* the Key of a bundle: its WasOn operand, if it has one, and its kind
KeyOf(Assume, BOI) ==
  [WasOn |-> IF bundleHasArgument(BOI, ABA_WasOn)
             THEN getValueFromBundleOpInfo(Assume, BOI, ABA_WasOn)
             ELSE Null,
   Kind |-> getAttrKindFromName(BOI.Tag)]

\* Result.find(Key) finds an entry that counts the assume
Seen(Result, Key, a) == Key \in DOMAIN Result /\ a \in DOMAIN Result[Key]

\* a mutant of Put: the entries of the key for other assumes are dropped
PutReplacing(Result, Key, a, mm) ==
  [K \in DOMAIN Result \cup {Key} |->
     IF K # Key THEN Result[K] ELSE [x \in {a} |-> mm]]

\* Result[Key][&Assume] = mm
Put(Result, Key, a, mm) ==
  [K \in DOMAIN Result \cup {Key} |->
     IF K # Key THEN Result[K]
     ELSE IF Key \in DOMAIN Result
          THEN [x \in DOMAIN Result[Key] \cup {a} |->
                  IF x = a THEN mm ELSE Result[Key][x]]
          ELSE [x \in {a} |-> mm]]

\* a mutant of Widen: the two bounds are exchanged
WidenSwapped(old, Val) ==
  [Min |-> uMax(Val, old.Min), Max |-> uMin(Val, old.Max)]

\* the two assignments that widen an entry by Val
Widen(old, Val) ==
  [Min |-> uMin(Val, old.Min), Max |-> uMax(Val, old.Max)]

\* a mutant of FillBundle: the test of the lookup is inverted, so that a new
\* entry is default-constructed and widened, and a known one is reset
FillBundleInverted(Result, Assume, a, BOI) ==
  LET Key == KeyOf(Assume, BOI)
      Val == ToUnsigned(getZExtValue(getValueFromBundleOpInfo(Assume, BOI, ABA_Argument)))
  IN IF Key.WasOn = Null /\ Key.Kind = "None" THEN Result
     ELSE IF ~bundleHasArgument(BOI, ABA_Argument)
     THEN Put(Result, Key, a, [Min |-> 0, Max |-> 0])
     ELSE IF Seen(Result, Key, a)
     THEN Put(Result, Key, a, [Min |-> Val, Max |-> Val])
     ELSE Put(Result, Key, a, Widen([Min |-> 0, Max |-> 0], Val))

\* a mutant of FillBundle: a bundle without an Argument widens a known entry
\* by 0, as a bundle with the argument 0 does
FillBundleWidenZero(Result, Assume, a, BOI) ==
  LET Key == KeyOf(Assume, BOI)
      Val == IF bundleHasArgument(BOI, ABA_Argument)
             THEN ToUnsigned(getZExtValue(getValueFromBundleOpInfo(Assume, BOI, ABA_Argument)))
             ELSE 0
  IN IF Key.WasOn = Null /\ Key.Kind = "None" THEN Result
     ELSE IF ~Seen(Result, Key, a)
     THEN Put(Result, Key, a, [Min |-> Val, Max |-> Val])
     ELSE Put(Result, Key, a, Widen(Result[Key][a], Val))

\* a mutant of FillBundle: a bundle is skipped when it has no WasOn or when
\* its tag is no attribute name
FillBundleSkipEither(Result, Assume, a, BOI) ==
  LET Key == KeyOf(Assume, BOI)
      Val == ToUnsigned(getZExtValue(getValueFromBundleOpInfo(Assume, BOI, ABA_Argument)))
  IN IF Key.WasOn = Null \/ Key.Kind = "None" THEN Result
     ELSE IF ~bundleHasArgument(BOI, ABA_Argument)
     THEN Put(Result, Key, a, [Min |-> 0, Max |-> 0])
     ELSE IF ~Seen(Result, Key, a)
     THEN Put(Result, Key, a, [Min |-> Val, Max |-> Val])
     ELSE Put(Result, Key, a, Widen(Result[Key][a], Val))

\* the body of the loop, for one bundle
FillBundle(Result, Assume, a, BOI) ==
  LET Key == KeyOf(Assume, BOI)
      Val == ToUnsigned(getZExtValue(getValueFromBundleOpInfo(Assume, BOI, ABA_Argument)))
  IN IF Key.WasOn = Null /\ Key.Kind = "None" THEN Result
     ELSE IF ~bundleHasArgument(BOI, ABA_Argument)
     THEN Put(Result, Key, a, [Min |-> 0, Max |-> 0])
     ELSE IF ~Seen(Result, Key, a)
     THEN Put(Result, Key, a, [Min |-> Val, Max |-> Val])
     ELSE Put(Result, Key, a, Widen(Result[Key][a], Val))

\* cast<ConstantInt> of the Argument operand fails
FillBundleFails(Assume, BOI) ==
  LET Key == KeyOf(Assume, BOI)
  IN /\ ~(Key.WasOn = Null /\ Key.Kind = "None")
     /\ bundleHasArgument(BOI, ABA_Argument)
     /\ ~isaConstantInt(getValueFromBundleOpInfo(Assume, BOI, ABA_Argument))

\* the bundles of the assumes fillMapFromAssume is run over
FillBundles ==
  {[Tag |-> "align", Inputs |-> in] :
     in \in {<<>>, <<p>>} \cup {<<p, c>> : c \in ArgConsts}}
  \cup {[Tag |-> IgnoreBundleTag, Inputs |-> in] : in \in {<<>>, <<p>>, <<p, q>>}}

\* a second assume of the function, with a fact about the same value
OtherAssumes ==
  {MkAssume(TrueCond, <<[Tag |-> "align", Inputs |-> <<p, ConstantInt(0, 1)>>]>>)}

InitFill ==
  /\ ir \in {<<MkAssume(TrueCond, bs), other>> :
               bs \in SeqUpTo(FillBundles, MaxBundles), other \in OtherAssumes}
  /\ uses = <<>>
  /\ ac = <<>>
  /\ call = [op |-> "none", pc |-> "idle", n |-> 0, Assume |-> 0]
  /\ outArgVal = SlotBefore
  /\ map = EmptyMap

\* fillMapFromAssume(ir[a], map) is called; `prev` is the assume of the call
\* before and `startMap` the map as the caller passes it
CallFillMapFromAssume(a) ==
  /\ call.op \in {"none", "fillMapFromAssume"}
  /\ call.pc \in {"idle", "return"}
  /\ call.n < MaxCalls
  /\ call' = [op |-> "fillMapFromAssume",
              pc |-> IF ir[a].bois = <<>> THEN "return" ELSE "loop",
              n |-> call.n + 1, Assume |-> a, i |-> 1,
              prev |-> call.Assume, startMap |-> map]
  /\ UNCHANGED <<ir, uses, ac, outArgVal, map>>

\* one iteration of the loop over bundle_op_infos()
FillStep ==
  /\ call.op = "fillMapFromAssume" /\ call.pc = "loop"
  /\ LET Assume == ir[call.Assume]
         BOI == Assume.bois[call.i]
     IN IF FillBundleFails(Assume, BOI)
        THEN /\ call' = [call EXCEPT !.pc = "fatal"]
             /\ map' = map
        ELSE /\ map' = FillBundle(map, Assume, call.Assume, BOI)
             /\ call' = [call EXCEPT !.i = call.i + 1,
                                     !.pc = IF call.i = Len(Assume.bois)
                                            THEN "return" ELSE "loop"]
  /\ UNCHANGED <<ir, uses, ac, outArgVal>>

NextFill ==
  \/ \E a \in 1..2 : CallFillMapFromAssume(a)
  \/ FillStep

SpecFill == InitFill /\ [][NextFill]_vars

-----------------------------------------------------------------------------
(* The claims about fillMapFromAssume, under SpecFill *)

FillReturned == call.op = "fillMapFromAssume" /\ call.pc = "return"

\* the bundles of Assume with key K that carry an Argument, and those that do not
WithArgument(Assume, K) ==
  {i \in 1..Len(Assume.bois) :
     /\ SlotCount(Assume.bois[i]) > 1
     /\ K = [WasOn |-> Slot(Assume, Assume.bois[i], 0),
             Kind |-> getAttrKindFromName(Assume.bois[i].Tag)]}

WithoutArgument(Assume, K) ==
  {i \in 1..Len(Assume.bois) :
     /\ SlotCount(Assume.bois[i]) <= 1
     /\ K = [WasOn |-> IF SlotCount(Assume.bois[i]) = 1
                       THEN Slot(Assume, Assume.bois[i], 0) ELSE Null,
             Kind |-> getAttrKindFromName(Assume.bois[i].Tag)]}

\* the order of uint64_t values
Leq64(x, y) == x.hi < y.hi \/ (x.hi = y.hi /\ x.lo <= y.lo)

ArgumentsOf(Assume, K) ==
  {getZExtValue(Slot(Assume, Assume.bois[i], 1)) : i \in WithArgument(Assume, K)}

\* C7: a run of fillMapFromAssume over the assume the run before it was over,
\* into the same map, leaves the keys and every (Min, Max) as that run left them.
C7_SecondRunChangesNothing ==
  (FillReturned /\ call.prev = call.Assume) => map = call.startMap

\* the second run is over an assume with a repeated key, carried by bundles
\* with different arguments and by a bundle without one
C7_Witness ==
  /\ FillReturned /\ call.prev = call.Assume
  /\ \E K \in DOMAIN map :
       /\ Cardinality(ArgumentsOf(ir[call.Assume], K)) >= 2
       /\ WithoutArgument(ir[call.Assume], K) # {}
  /\ \E K \in DOMAIN map :
       /\ Seen(map, K, call.Assume)
       /\ map[K][call.Assume].Min < map[K][call.Assume].Max

\* C8: when an assume holds several bundles with an Argument and the same key
\* (and none without), and the map had no entry for the key and the assume,
\* the run leaves Min the smallest and Max the largest of the arguments.
C8_MinMaxOfArguments ==
  FillReturned =>
    \A K \in DOMAIN map :
      LET Args == ArgumentsOf(ir[call.Assume], K)
      IN (/\ Cardinality(WithArgument(ir[call.Assume], K)) >= 2
          /\ WithoutArgument(ir[call.Assume], K) = {}
          /\ ~Seen(call.startMap, K, call.Assume))
         => /\ Seen(map, K, call.Assume)
            /\ \E lo \in Args : /\ \A x \in Args : Leq64(lo, x)
                                /\ lo = [hi |-> 0, lo |-> map[K][call.Assume].Min]
            /\ \E up \in Args : /\ \A x \in Args : Leq64(x, up)
                                /\ up = [hi |-> 0, lo |-> map[K][call.Assume].Max]

\* C9: an entry of the map, once made, stays, its Min never increases and its
\* Max never decreases, whatever bundle is processed next.
C9_OnlyWidened ==
  [][\A K \in DOMAIN map : \A a \in DOMAIN map[K] :
        /\ Seen(map', K, a)
        /\ map'[K][a].Min <= map[K][a].Min
        /\ map'[K][a].Max >= map[K][a].Max]_vars

\* C10: every (Min, Max) of the map has Min <= Max, after each bundle of each
\* run, starting from the empty map.
C10_MinLeqMax ==
  \A K \in DOMAIN map : \A a \in DOMAIN map[K] : map[K][a].Min <= map[K][a].Max

\* in the middle of a run, an entry that a bundle has widened
C10_Witness ==
  /\ call.op = "fillMapFromAssume" /\ call.pc = "loop" /\ call.i > 2
  /\ \E K \in DOMAIN map :
       /\ Seen(map, K, call.Assume)
       /\ map[K][call.Assume].Min < map[K][call.Assume].Max

-----------------------------------------------------------------------------
(* Use-edges, the AssumptionCache and the knowledge queries *)

\* a Use is an operand position of an instruction; U->get() is the operand
Get(IR, U) == IR[U.User].ops[U.OperandNo + 1]

UsesOf(IR, V) ==
  {U \in UNION {{[User |-> a, OperandNo |-> k] : k \in 0..(Len(IR[a].ops) - 1)} :
                   a \in 1..Len(IR)} : Get(IR, U) = V}

\* u was made a use no later than w: instructions in order, operands in order
Older(u, w) ==
  u.User < w.User \/ (u.User = w.User /\ u.OperandNo <= w.OperandNo)

\* V->uses(), newest use first (a new use is put at the head of the list) or
\* oldest first (the list as a reader of it has reversed it)
RECURSIVE ListUses(_, _)
ListUses(S, order) ==
  IF S = {} THEN <<>>
  ELSE LET u == CHOOSE u \in S :
                  \A w \in S : IF order = "newest" THEN Older(w, u) ELSE Older(u, w)
       IN <<u>> \o ListUses(S \ {u}, order)

ValuesOf(IR) == UNION {{IR[a].ops[k] : k \in 1..Len(IR[a].ops)} : a \in 1..Len(IR)}

\* AssumptionCache::ExprResultIdx, the largest unsigned, as a signed number
ExprResultIdx == -1

\* the bundles of IR in which V is an operand, in stored order
RECURSIVE BundlesWith(_, _, _, _)
BundlesWith(IR, V, a, i) ==
  IF a > Len(IR) THEN <<>>
  ELSE IF i > Len(IR[a].bois) THEN BundlesWith(IR, V, a + 1, 1)
  ELSE (IF \E k \in IR[a].bois[i].Begin..(IR[a].bois[i].End - 1) : IR[a].ops[k + 1] = V
        THEN <<[Assume |-> a, Index |-> i - 1]>> ELSE <<>>)
       \o BundlesWith(IR, V, a, i + 1)

\* assumptionsFor(V) as the AssumptionCache keeps it: an entry whose assume is
\* gone, the bundles whose WasOn is V and whose tag is not "ignore", and a
\* placeholder for each assume whose condition is affected by V
RECURSIVE CacheEntries(_, _, _, _)
CacheEntries(IR, V, a, i) ==
  IF a > Len(IR) THEN <<>>
  ELSE IF i > Len(IR[a].bois)
  THEN (IF IR[a].ID = "assume" /\ IR[a].ops[1] = V
        THEN <<[Assume |-> a, Index |-> ExprResultIdx]>> ELSE <<>>)
       \o CacheEntries(IR, V, a + 1, 1)
  ELSE (IF /\ bundleHasArgument(IR[a].bois[i], ABA_WasOn)
           /\ IR[a].ops[IR[a].bois[i].Begin + 1] = V
           /\ IR[a].bois[i].Tag # IgnoreBundleTag
        THEN <<[Assume |-> a, Index |-> i - 1]>> ELSE <<>>)
       \o CacheEntries(IR, V, a, i + 1)

assumptionsFor(IR, V, mode) ==
  IF mode = "exact" THEN BundlesWith(IR, V, 1, 1)
  ELSE <<[Assume |-> 0, Index |-> 0]>> \o CacheEntries(IR, V, 1, 1)

\* CallBase::getBundleOpInfoForOperand: the bundle (counted from 1) whose
\* operands include operand OpIdx; it is unreachable that there is none
getBundleOpInfoForOperand(I, OpIdx) ==
  LET S == {i \in 1..Len(I.bois) : I.bois[i].Begin <= OpIdx /\ OpIdx < I.bois[i].End}
  IN IF S = {} THEN [pc |-> "fatal", Bundle |-> 0]
     ELSE [pc |-> "return", Bundle |-> CHOOSE i \in S : TRUE]

\* a mutant of getBundleFromUse: a use in the WasOn slot of its bundle is
\* left out, and a use of the condition is not
getBundleFromUseNotWasOn(IR, U) ==
  LET B == getBundleOpInfoForOperand(IR[U.User], U.OperandNo)
  IN IF IR[U.User].ID # "assume" THEN [pc |-> "return", Bundle |-> 0]
     ELSE IF B.pc = "return" /\ IR[U.User].bois[B.Bundle].Begin = U.OperandNo
     THEN [pc |-> "return", Bundle |-> 0]
     ELSE B

\* Bundle 0 is the nullptr.  The match is of the user: a call of llvm.assume
\* whose argument 0 is not the used value.
getBundleFromUse(IR, U) ==
  IF ~(IR[U.User].ID = "assume" /\ ~(IR[U.User].ops[1] = Get(IR, U)))
  THEN [pc |-> "return", Bundle |-> 0]
  ELSE getBundleOpInfoForOperand(IR[U.User], U.OperandNo)

\* RetainedKnowledge::none()
none == [AttrKind |-> "None", WasOn |-> Null, ArgValue |-> [hi |-> 0, lo |-> 0]]

\* a mutant of getKnowledgeFromBundle: a bundle whose tag is no attribute
\* name yields none(), with no field set
getKnowledgeFromBundleNoneForUnknown(Assume, BOI) ==
  IF getAttrKindFromName(BOI.Tag) = "None" THEN none
  ELSE [AttrKind |-> getAttrKindFromName(BOI.Tag),
        WasOn |-> IF bundleHasArgument(BOI, ABA_WasOn)
                  THEN getValueFromBundleOpInfo(Assume, BOI, ABA_WasOn)
                  ELSE none.WasOn,
        ArgValue |-> IF BOI.End - BOI.Begin > ABA_Argument
                     THEN getZExtValue(getValueFromBundleOpInfo(Assume, BOI, ABA_Argument))
                     ELSE none.ArgValue]

getKnowledgeFromBundle(Assume, BOI) ==
  [AttrKind |-> getAttrKindFromName(BOI.Tag),
   WasOn |-> IF bundleHasArgument(BOI, ABA_WasOn)
             THEN getValueFromBundleOpInfo(Assume, BOI, ABA_WasOn)
             ELSE none.WasOn,
   ArgValue |-> IF BOI.End - BOI.Begin > ABA_Argument
                THEN getZExtValue(getValueFromBundleOpInfo(Assume, BOI, ABA_Argument))
                ELSE none.ArgValue]

\* cast<ConstantInt> of the Argument operand fails
getKnowledgeFromBundleFails(Assume, BOI) ==
  /\ BOI.End - BOI.Begin > ABA_Argument
  /\ ~isaConstantInt(getValueFromBundleOpInfo(Assume, BOI, ABA_Argument))

\* getKnowledgeFromOperandInAssume: the knowledge of the bundle that owns
\* operand Idx; the asserts of the intrinsic and of the owning bundle are fatal
getKnowledgeFromOperandInAssume(AssumeCI, Idx) ==
  LET B == getBundleOpInfoForOperand(AssumeCI, Idx)
  IN IF AssumeCI.ID # "assume" \/ B.pc = "fatal"
     THEN [pc |-> "fatal", rk |-> none]
     ELSE IF getKnowledgeFromBundleFails(AssumeCI, AssumeCI.bois[B.Bundle])
     THEN [pc |-> "fatal", rk |-> none]
     ELSE [pc |-> "return",
           rk |-> getKnowledgeFromBundle(AssumeCI, AssumeCI.bois[B.Bundle])]

\* a mutant of isAssumeWithEmptyBundle: one "ignore" bundle is enough
isAssumeWithEmptyBundleAnyIgnore(CI) ==
  IF CI.ID # "assume" THEN [pc |-> "fatal", ret |-> FALSE]
  ELSE [pc |-> "return",
        ret |-> CI.bois = <<>> \/ \E i \in 1..Len(CI.bois) : CI.bois[i].Tag = IgnoreBundleTag]

\* none_of(bundle_op_infos(), Tag != IgnoreBundleTag)
isAssumeWithEmptyBundle(CI) ==
  IF CI.ID # "assume" THEN [pc |-> "fatal", ret |-> FALSE]
  ELSE [pc |-> "return",
        ret |-> ~\E i \in 1..Len(CI.bois) : CI.bois[i].Tag # IgnoreBundleTag]

\* the outcomes of a knowledge query: the knowledge, the bundle it is of, and
\* the calls of Filter made on the way
NoFrom == [Assume |-> 0, Bundle |-> 0]
Knowledge(rk, from, calls) ==
  [pc |-> "return", rk |-> rk, from |-> from, filterCalls |-> calls]
NoKnowledge(calls) == Knowledge(none, NoFrom, calls)
FatalQuery(calls) ==
  [pc |-> "fatal", rk |-> none, from |-> NoFrom, filterCalls |-> calls]

getKnowledgeFromUse(IR, U, AttrKinds) ==
  LET B == getBundleFromUse(IR, U)
      RK == getKnowledgeFromBundle(IR[U.User], IR[U.User].bois[B.Bundle])
  IN IF B.pc = "fatal" THEN FatalQuery(<<>>)
     ELSE IF B.Bundle = 0 THEN NoKnowledge(<<>>)
     ELSE IF getKnowledgeFromBundleFails(IR[U.User], IR[U.User].bois[B.Bundle])
     THEN FatalQuery(<<>>)
     ELSE IF \E Attr \in AttrKinds : Attr = RK.AttrKind
     THEN Knowledge(RK, [Assume |-> U.User, Bundle |-> B.Bundle], <<>>)
     ELSE NoKnowledge(<<>>)

\* a mutant of is_contained: every kind is taken for a wanted one
is_containedAlways(AttrKinds, Kind) == TRUE

is_contained(AttrKinds, Kind) == Kind \in AttrKinds

\* a mutant of Filter: every bundle is accepted
FilterAlways(F, RK, I, Bundle) == TRUE

\* the Filter of a caller: it accepts the bundles of some instructions and of
\* some positions
Filter(F, RK, I, Bundle) == I \in F.okInsts /\ Bundle \in F.okBundles

\* the loop over AC->assumptionsFor(V), from entry i on
RECURSIVE ScanAssumptions(_, _, _, _, _, _)
ScanAssumptions(IR, Elems, i, AttrKinds, F, calls) ==
  IF i > Len(Elems) THEN NoKnowledge(calls)
  ELSE IF Elems[i].Assume = 0 \/ Elems[i].Index = ExprResultIdx
  THEN ScanAssumptions(IR, Elems, i + 1, AttrKinds, F, calls)
  ELSE LET II == IR[Elems[i].Assume]
           Bundle == Elems[i].Index + 1
           RK == getKnowledgeFromBundle(II, II.bois[Bundle])
           asked == [Assume |-> Elems[i].Assume, Bundle |-> Bundle]
       IN IF getKnowledgeFromBundleFails(II, II.bois[Bundle]) THEN FatalQuery(calls)
          ELSE IF RK.AttrKind # "None" /\ is_contained(AttrKinds, RK.AttrKind)
          THEN IF Filter(F, RK, Elems[i].Assume, Bundle)
               THEN Knowledge(RK, asked, Append(calls, asked))
               ELSE ScanAssumptions(IR, Elems, i + 1, AttrKinds, F, Append(calls, asked))
          ELSE ScanAssumptions(IR, Elems, i + 1, AttrKinds, F, calls)

\* a mutant of ScanUses: Filter is asked before the kind is looked up among
\* the wanted ones
RECURSIVE ScanUsesFilterFirst(_, _, _, _, _, _)
ScanUsesFilterFirst(IR, Us, i, AttrKinds, F, calls) ==
  IF i > Len(Us) THEN NoKnowledge(calls)
  ELSE LET B == getBundleFromUse(IR, Us[i])
           II == IR[Us[i].User]
           RK == getKnowledgeFromBundle(II, II.bois[B.Bundle])
           asked == [Assume |-> Us[i].User, Bundle |-> B.Bundle]
       IN IF B.pc = "fatal" THEN FatalQuery(calls)
          ELSE IF B.Bundle = 0
          THEN ScanUsesFilterFirst(IR, Us, i + 1, AttrKinds, F, calls)
          ELSE IF getKnowledgeFromBundleFails(II, II.bois[B.Bundle]) THEN FatalQuery(calls)
          ELSE IF RK.AttrKind # "None"
          THEN IF Filter(F, RK, Us[i].User, B.Bundle) /\ is_contained(AttrKinds, RK.AttrKind)
               THEN Knowledge(RK, asked, Append(calls, asked))
               ELSE ScanUsesFilterFirst(IR, Us, i + 1, AttrKinds, F, Append(calls, asked))
          ELSE ScanUsesFilterFirst(IR, Us, i + 1, AttrKinds, F, calls)

\* the loop over V->uses(), from use i on
RECURSIVE ScanUses(_, _, _, _, _, _)
ScanUses(IR, Us, i, AttrKinds, F, calls) ==
  IF i > Len(Us) THEN NoKnowledge(calls)
  ELSE LET B == getBundleFromUse(IR, Us[i])
           II == IR[Us[i].User]
           RK == getKnowledgeFromBundle(II, II.bois[B.Bundle])
           asked == [Assume |-> Us[i].User, Bundle |-> B.Bundle]
       IN IF B.pc = "fatal" THEN FatalQuery(calls)
          ELSE IF B.Bundle = 0
          THEN ScanUses(IR, Us, i + 1, AttrKinds, F, calls)
          ELSE IF getKnowledgeFromBundleFails(II, II.bois[B.Bundle]) THEN FatalQuery(calls)
          ELSE IF RK.AttrKind # "None" /\ is_contained(AttrKinds, RK.AttrKind)
          THEN IF Filter(F, RK, Us[i].User, B.Bundle)
               THEN Knowledge(RK, asked, Append(calls, asked))
               ELSE ScanUses(IR, Us, i + 1, AttrKinds, F, Append(calls, asked))
          ELSE ScanUses(IR, Us, i + 1, AttrKinds, F, calls)

\* a mutant of getKnowledgeForValue: when the list of the cache yields
\* nothing, the uses are scanned as well
getKnowledgeForValueFallback(IR, Us, AttrKinds, hasAC, AC, F) ==
  IF hasAC
  THEN LET r == ScanAssumptions(IR, AC, 1, AttrKinds, F, <<>>)
       IN IF r.pc = "return" /\ r.rk = none
          THEN ScanUses(IR, Us, 1, AttrKinds, F, r.filterCalls)
          ELSE r
  ELSE ScanUses(IR, Us, 1, AttrKinds, F, <<>>)

\* AC is the list assumptionsFor(V) of the cache, when a cache is given, and
\* Us is V->uses()
getKnowledgeForValue(IR, Us, AttrKinds, hasAC, AC, F) ==
  IF hasAC THEN ScanAssumptions(IR, AC, 1, AttrKinds, F, <<>>)
  ELSE ScanUses(IR, Us, 1, AttrKinds, F, <<>>)

\* the validity oracle: DT[CtxI] is the set of the instructions that the
\* dominance reasoning finds to hold at the context instruction CtxI
isValidAssumeForContext(I, CtxI, DT) == I \in DT[CtxI]

\* a mutant of getKnowledgeValidInContext: the oracle is not asked
getKnowledgeValidInContextUnasked(IR, Us, AttrKinds, CtxI, DT, hasAC, AC) ==
  getKnowledgeForValue(IR, Us, AttrKinds, hasAC, AC,
                       [okInsts |-> 1..Len(IR), okBundles |-> Nat])

\* the Filter handed on ignores the knowledge and the bundle, and asks the
\* oracle about the instruction
getKnowledgeValidInContext(IR, Us, AttrKinds, CtxI, DT, hasAC, AC) ==
  getKnowledgeForValue(IR, Us, AttrKinds, hasAC, AC,
                       [okInsts |-> {I \in 1..Len(IR) : isValidAssumeForContext(I, CtxI, DT)},
                        okBundles |-> Nat])

-----------------------------------------------------------------------------
(* The callers of the knowledge queries *)

\* the values the queries are about
QueryValues == {p, q}

\* the largest number of bundles on the assume the queries look at
MaxUseBundles == 2

\* the bundles of the assume the queries look at
UseBundles ==
  {[Tag |-> "align", Inputs |-> <<p, ConstantInt(0, 0)>>],
   [Tag |-> "align", Inputs |-> <<p, ConstantInt(0, 1)>>],
   [Tag |-> "align", Inputs |-> <<q, ConstantInt(0, 0), p>>],
   [Tag |-> "nonnull", Inputs |-> <<p>>],
   [Tag |-> "nonnull", Inputs |-> <<q>>],
   [Tag |-> IgnoreBundleTag, Inputs |-> <<p>>],
   [Tag |-> IgnoreBundleTag, Inputs |-> <<p, q>>]}

\* an instruction that uses p and is no llvm.assume
OtherUser == [ID |-> "other", ops |-> <<p>>, bois |-> <<>>]

\* the kinds a caller asks for
KindSets ==
  {{"Alignment"}, {"NonNull"}, {"Alignment", "NonNull"}, {"None", "Alignment"}}

AlwaysTrue == [okInsts |-> 1..3, okBundles |-> 1..MaxUseBundles]

Filters ==
  {AlwaysTrue,
   [okInsts |-> {2}, okBundles |-> 1..MaxUseBundles],
   [okInsts |-> 1..3, okBundles |-> 2..MaxUseBundles],
   [okInsts |-> {}, okBundles |-> 1..MaxUseBundles]}

\* a second assume of the function, with facts about both values
UseOtherAssumes ==
  {MkAssume(TrueCond, <<[Tag |-> "align", Inputs |-> <<p, ConstantInt(0, 1)>>],
                        [Tag |-> "nonnull", Inputs |-> <<q>>]>>)}

InitUse ==
  /\ ir \in {<<MkAssume(cond, bs), other, OtherUser>> :
               cond \in {TrueCond, q}, bs \in SeqUpTo(UseBundles, MaxUseBundles),
               other \in UseOtherAssumes}
  /\ \E order \in {"newest", "oldest"} :
       uses = [V \in ValuesOf(ir) \cup QueryValues |-> ListUses(UsesOf(ir, V), order)]
  /\ \E mode \in {"exact", "cache"} :
       ac = [V \in QueryValues |-> assumptionsFor(ir, V, mode)]
  /\ call = NoCall
  /\ outArgVal = SlotBefore
  /\ map = EmptyMap

\* a mutant of CallGetBundleFromUse: the use that is looked at is dropped, its
\* operand replaced by no value
CallGetBundleFromUseDropping ==
  /\ call.pc = "idle"
  /\ \E V \in DOMAIN uses : \E j \in 1..Len(uses[V]) :
       LET r == getBundleFromUse(ir, uses[V][j])
           U == uses[V][j]
       IN /\ call' = [op |-> "getBundleFromUse", pc |-> r.pc, U |-> U,
                      Bundle |-> r.Bundle]
          /\ ir' = [ir EXCEPT ![U.User].ops[U.OperandNo + 1] = Null]
  /\ UNCHANGED <<uses, ac, outArgVal, map>>

CallGetBundleFromUse ==
  /\ call.pc = "idle"
  /\ \E V \in DOMAIN uses : \E j \in 1..Len(uses[V]) :
       LET r == getBundleFromUse(ir, uses[V][j])
       IN call' = [op |-> "getBundleFromUse", pc |-> r.pc, U |-> uses[V][j],
                   Bundle |-> r.Bundle]
  /\ UNCHANGED <<ir, uses, ac, outArgVal, map>>

CallGetKnowledgeFromUse ==
  /\ call.pc = "idle"
  /\ \E V \in DOMAIN uses : \E j \in 1..Len(uses[V]) : \E AttrKinds \in KindSets :
       LET r == getKnowledgeFromUse(ir, uses[V][j], AttrKinds)
       IN call' = [op |-> "getKnowledgeFromUse", pc |-> r.pc, U |-> uses[V][j],
                   AttrKinds |-> AttrKinds, rk |-> r.rk, from |-> r.from,
                   filterCalls |-> r.filterCalls]
  /\ UNCHANGED <<ir, uses, ac, outArgVal, map>>

CallGetKnowledgeForValue ==
  /\ call.pc = "idle"
  /\ \E V \in QueryValues, AttrKinds \in KindSets, hasAC \in BOOLEAN, F \in Filters :
       LET r == getKnowledgeForValue(ir, uses[V], AttrKinds, hasAC, ac[V], F)
       IN call' = [op |-> "getKnowledgeForValue", pc |-> r.pc, V |-> V,
                   AttrKinds |-> AttrKinds, hasAC |-> hasAC, F |-> F,
                   rk |-> r.rk, from |-> r.from, filterCalls |-> r.filterCalls]
  /\ UNCHANGED <<ir, uses, ac, outArgVal, map>>

\* the context instructions of the callers
ContextPoints == {2, 3}

\* the answers of the oracle: an assume holds at the instructions after it, or
\* only the second assume holds, at the last instruction
Oracles ==
  {[CtxI \in ContextPoints |-> 1..(CtxI - 1)],
   [CtxI \in ContextPoints |-> IF CtxI = 3 THEN {2} ELSE {}]}

CallGetKnowledgeValidInContext ==
  /\ call.pc = "idle"
  /\ \E V \in QueryValues, AttrKinds \in KindSets, hasAC \in BOOLEAN,
        CtxI \in ContextPoints, DT \in Oracles :
       LET r == getKnowledgeValidInContext(ir, uses[V], AttrKinds, CtxI, DT, hasAC, ac[V])
       IN call' = [op |-> "getKnowledgeValidInContext", pc |-> r.pc, V |-> V,
                   AttrKinds |-> AttrKinds, hasAC |-> hasAC, CtxI |-> CtxI, DT |-> DT,
                   rk |-> r.rk, from |-> r.from, filterCalls |-> r.filterCalls]
  /\ UNCHANGED <<ir, uses, ac, outArgVal, map>>

NextUse ==
  \/ CallGetBundleFromUse
  \/ CallGetKnowledgeFromUse
  \/ CallGetKnowledgeForValue
  \/ CallGetKnowledgeValidInContext

SpecUse == InitUse /\ [][NextUse]_vars

-----------------------------------------------------------------------------
(* The claims about the knowledge queries, under SpecUse *)

\* the bundles of instruction I that hold operand k, and those that hold V
Owning(I, k) == {i \in 1..Len(I.bois) : I.bois[i].Begin <= k /\ k < I.bois[i].End}
Holding(I, V) == {i \in 1..Len(I.bois) : \E k \in 0..(Len(I.ops) - 1) : i \in Owning(I, k) /\ I.ops[k + 1] = V}

BundleFromUseOnAssume ==
  /\ call.op = "getBundleFromUse"
  /\ ir[call.U.User].ID = "assume"
  /\ Owning(ir[call.U.User], call.U.OperandNo) # {}

\* C4, as claimed: on a use whose user is an assume, getBundleFromUse returns
\* none when the use is the WasOn slot of its bundle, and the owning bundle
\* when the use is in another slot.
C4_NoneForWasOnUse ==
  BundleFromUseOnAssume =>
    \A i \in Owning(ir[call.U.User], call.U.OperandNo) :
      /\ call.pc = "return"
      /\ call.U.OperandNo = ir[call.U.User].bois[i].Begin => call.Bundle = 0
      /\ call.U.OperandNo > ir[call.U.User].bois[i].Begin => call.Bundle = i

\* C4, amended: on a use in a bundle of an assume, getBundleFromUse returns
\* none exactly when the used value is the condition (argument 0) of the
\* assume, and otherwise the owning bundle, for the WasOn slot as for any other.
C4_NoneForConditionValue ==
  BundleFromUseOnAssume =>
    \A i \in Owning(ir[call.U.User], call.U.OperandNo) :
      /\ call.pc = "return"
      /\ call.Bundle = IF Get(ir, call.U) = ir[call.U.User].ops[1] THEN 0 ELSE i

\* the use is the WasOn slot of a bundle that has an Argument too, and the
\* bundle is returned
C4_Witness ==
  /\ BundleFromUseOnAssume /\ call.pc = "return" /\ call.Bundle # 0
  /\ call.U.OperandNo = ir[call.U.User].bois[call.Bundle].Begin
  /\ SlotCount(ir[call.U.User].bois[call.Bundle]) > 1

KnowledgeReturned ==
  /\ call.op \in {"getKnowledgeFromUse", "getKnowledgeForValue"}
  /\ call.pc = "return"

\* C5: the knowledge that getKnowledgeForValue (with or without a cache) or
\* getKnowledgeFromUse returns, when it is not none, is of a kind that is in
\* AttrKinds, and is the knowledge of a bundle of that kind.
C5_KindIsWanted ==
  (KnowledgeReturned /\ call.rk.AttrKind # "None") =>
     /\ call.rk.AttrKind \in call.AttrKinds
     /\ call.from # NoFrom
     /\ getAttrKindFromName(ir[call.from.Assume].bois[call.from.Bundle].Tag)
          = call.rk.AttrKind

\* the scan of the uses of V met a bundle about V of a kind not asked for
\* before the bundle whose knowledge is returned
C5_Witness ==
  /\ call.op = "getKnowledgeForValue" /\ call.pc = "return" /\ ~call.hasAC
  /\ call.rk.AttrKind # "None"
  /\ \E j, k \in 1..Len(uses[call.V]) :
       /\ j < k
       /\ uses[call.V][k].User = call.from.Assume
       /\ call.from.Bundle \in Owning(ir[call.from.Assume], uses[call.V][k].OperandNo)
       /\ LET I == ir[uses[call.V][j].User]
          IN /\ I.ID = "assume" /\ I.ops[1] # call.V
             /\ \E i \in Owning(I, uses[call.V][j].OperandNo) :
                  /\ getAttrKindFromName(I.bois[i].Tag) \notin call.AttrKinds \cup {"None"}
                  /\ I.ops[I.bois[i].Begin + 1] = call.V

\* the list of the cache for V has no placeholder and no dead entry, and
\* lists the bundles in which V is an operand, each once
IndexIsExact(V) ==
  /\ \A j \in 1..Len(ac[V]) :
       /\ ac[V][j].Assume # 0 /\ ac[V][j].Index # ExprResultIdx
       /\ ac[V][j].Index + 1 \in Holding(ir[ac[V][j].Assume], V)
       /\ \A k \in 1..Len(ac[V]) : ac[V][j] = ac[V][k] => j = k
  /\ \A a \in 1..Len(ir) : \A i \in Holding(ir[a], V) :
       \E j \in 1..Len(ac[V]) : ac[V][j] = [Assume |-> a, Index |-> i - 1]

\* the query of the claim, and the same query on the other path
BothPaths ==
  /\ call.op = "getKnowledgeForValue" /\ call.pc = "return"
  /\ call.F = AlwaysTrue
  /\ IndexIsExact(call.V)

OtherPath ==
  getKnowledgeForValue(ir, uses[call.V], call.AttrKinds, ~call.hasAC, ac[call.V], call.F)

\* the bundles with V whose kind is asked for
Wanted(a) ==
  {i \in Holding(ir[a], call.V) :
     getAttrKindFromName(ir[a].bois[i].Tag) \in call.AttrKinds \ {"None"}}

\* C6, as claimed: with an exact index and an always-true filter, the query
\* with the cache and the query without it return knowledge of the same kind
\* and the same argument.
C6_SameKindAndArgument ==
  (BothPaths /\ OtherPath.pc = "return") =>
     /\ OtherPath.rk.AttrKind = call.rk.AttrKind
     /\ OtherPath.rk.ArgValue = call.rk.ArgValue

\* V is not the condition of an assume that holds it in a bundle
NotTheCondition ==
  \A a \in 1..Len(ir) : Holding(ir[a], call.V) # {} => ir[a].ops[1] # call.V

\* C6, amended: when V is moreover not the condition of an assume that holds
\* it in a bundle, the two queries, when both return, return none together,
\* and otherwise each returns the knowledge of a bundle with V whose kind is
\* asked for; the two agree in kind and argument when all those bundles do.
C6_SameCandidates ==
  (BothPaths /\ NotTheCondition /\ OtherPath.pc = "return") =>
     /\ (OtherPath.rk = none) <=> (call.rk = none)
     /\ call.rk # none =>
          /\ call.from.Bundle \in Wanted(call.from.Assume)
          /\ OtherPath.from.Bundle \in Wanted(OtherPath.from.Assume)
     /\ (\A a, b \in 1..Len(ir) : \A i \in Wanted(a), j \in Wanted(b) :
            getKnowledgeFromBundle(ir[a], ir[a].bois[i]).AttrKind
              = getKnowledgeFromBundle(ir[b], ir[b].bois[j]).AttrKind
            /\ getKnowledgeFromBundle(ir[a], ir[a].bois[i]).ArgValue
              = getKnowledgeFromBundle(ir[b], ir[b].bois[j]).ArgValue)
        => /\ OtherPath.rk.AttrKind = call.rk.AttrKind
           /\ OtherPath.rk.ArgValue = call.rk.ArgValue

\* V is in several bundles of a kind asked for, and the two queries return
\* the knowledge of different ones
C6_Witness ==
  /\ BothPaths /\ call.hasAC /\ NotTheCondition
  /\ OtherPath.pc = "return"
  /\ call.rk # none
  /\ OtherPath.from # call.from
  /\ OtherPath.rk.ArgValue # call.rk.ArgValue

-----------------------------------------------------------------------------
(* The claims about one iteration of fillMapFromAssume, under SpecFill *)

\* the bundle the next iteration of the loop is over, and its key
CurAssume == ir[call.Assume]
CurBOI == CurAssume.bois[call.i]
CurKey ==
  [WasOn |-> IF SlotCount(CurBOI) > 0 THEN Slot(CurAssume, CurBOI, 0) ELSE Null,
   Kind |-> getAttrKindFromName(CurBOI.Tag)]
NonEmptyKey(K) == K.WasOn # Null \/ K.Kind # "None"

\* this step is an iteration of the loop that went through
Processed ==
  /\ call.op = "fillMapFromAssume" /\ call.pc = "loop"
  /\ call'.op = "fillMapFromAssume" /\ call'.pc # "fatal" /\ call'.i = call.i + 1

Zero64 == [hi |-> 0, lo |-> 0]
ZeroZero == [Min |-> 0, Max |-> 0]

\* the iteration is over a bundle with a non-empty key and no Argument
ArglessProcessed ==
  Processed /\ NonEmptyKey(CurKey) /\ SlotCount(CurBOI) <= 1

\* the iteration is over a bundle with a non-empty key and the Argument 0
ZeroProcessed ==
  /\ Processed /\ NonEmptyKey(CurKey) /\ SlotCount(CurBOI) > 1
  /\ isaConstantInt(Slot(CurAssume, CurBOI, 1))
  /\ getZExtValue(Slot(CurAssume, CurBOI, 1)) = Zero64

\* C11 as stated: after a bundle with a non-empty key and no Argument the
\* entry of its (key, assume) is (0, 0), and after a bundle whose Argument is 0
\* the entry is the same (0, 0), so that the map cannot tell the two apart.
C11_SameAsArgumentZero ==
  [][/\ ArglessProcessed => map'[CurKey][call.Assume] = ZeroZero
     /\ ZeroProcessed => map'[CurKey][call.Assume] = ZeroZero]_vars

\* C11, amended: after a bundle with a non-empty key and no Argument the entry
\* of its (key, assume) is (0, 0); after a bundle whose Argument is 0 the entry
\* is (0, 0) when the map had none for the pair, and (0, Max) when it had
\* (Min, Max), which differs from (0, 0) when Max > 0.
C11_ZeroZeroAfterArgless ==
  [][/\ ArglessProcessed => map'[CurKey][call.Assume] = ZeroZero
     /\ ZeroProcessed =>
          map'[CurKey][call.Assume] =
            IF Seen(map, CurKey, call.Assume)
            THEN [Min |-> 0, Max |-> map[CurKey][call.Assume].Max]
            ELSE ZeroZero]_vars

\* a bundle without an Argument has just reset to (0, 0) the entry that the
\* bundle before it, with the same key and an argument above 0, had made
C11_Witness ==
  /\ call.op = "fillMapFromAssume" /\ call.pc \in {"loop", "return"} /\ call.i > 2
  /\ LET A == ir[call.Assume]
         Last == A.bois[call.i - 1]
         Before == A.bois[call.i - 2]
     IN /\ SlotCount(Last) = 1 /\ SlotCount(Before) = 2
        /\ Last.Tag = "align" /\ Before.Tag = "align"
        /\ Slot(A, Last, 0) = Slot(A, Before, 0)
        /\ isaConstantInt(Slot(A, Before, 1))
        /\ getZExtValue(Slot(A, Before, 1)).lo > 0
        /\ map[[WasOn |-> Slot(A, Last, 0), Kind |-> "Alignment"]][call.Assume] = ZeroZero

\* the iteration is over a bundle with a non-empty key and an Argument, the
\* first of its (key, assume) that the map sees
FirstArgumentProcessed ==
  /\ Processed /\ NonEmptyKey(CurKey) /\ SlotCount(CurBOI) > 1
  /\ ~Seen(map, CurKey, call.Assume)

\* C12: for the first bundle of a (key, assume), Min and Max are the Argument
\* exactly, as the unsigned 64-bit number the constant holds, untruncated.
C12_ArgumentExact ==
  [][FirstArgumentProcessed =>
       LET Arg == getZExtValue(Slot(CurAssume, CurBOI, 1))
           E == map'[CurKey][call.Assume]
       IN /\ [hi |-> 0, lo |-> E.Min] = Arg
          /\ [hi |-> 0, lo |-> E.Max] = Arg]_vars

\* the Argument operand of the bundle is not an integer constant
MalformedArgument(Assume, BOI) ==
  SlotCount(BOI) > 1 /\ ~isaConstantInt(Slot(Assume, BOI, 1))

\* C13: an iteration adds no entry for a bundle with no WasOn and a tag that is
\* no attribute name, and leaves an entry under the key of every other bundle
\* (whose Argument, if any, is an integer constant, or the cast is fatal):
\* (WasOn, None) for an unknown tag with a WasOn, (Null, kind) for an attribute
\* name without a WasOn.
C13_EntryUnlessEmptyKey ==
  [][(call.op = "fillMapFromAssume" /\ call.pc = "loop" /\ call' # call) =>
       LET a == call.Assume
       IN IF ~NonEmptyKey(CurKey) THEN Processed /\ map' = map
          ELSE IF MalformedArgument(CurAssume, CurBOI)
          THEN call'.pc = "fatal" /\ map' = map
          ELSE /\ Processed
               /\ Seen(map', CurKey, a)
               /\ DOMAIN map' = DOMAIN map \cup {CurKey}
               /\ DOMAIN map'[CurKey] =
                    {a} \cup (IF CurKey \in DOMAIN map THEN DOMAIN map[CurKey] ELSE {})]_vars

\* a run over a bundle with neither WasOn nor attribute name, a bundle with a
\* WasOn and an unknown tag, and a bundle with an attribute name and no WasOn
\* has left the two entries (p, None) and (Null, Alignment)
C13_Witness ==
  /\ FillReturned /\ call.n = 1
  /\ LET A == ir[call.Assume]
     IN /\ \E i \in 1..Len(A.bois) :
             SlotCount(A.bois[i]) = 0 /\ A.bois[i].Tag = IgnoreBundleTag
        /\ \E i \in 1..Len(A.bois) :
             SlotCount(A.bois[i]) = 1 /\ A.bois[i].Tag = IgnoreBundleTag
        /\ \E i \in 1..Len(A.bois) :
             SlotCount(A.bois[i]) = 0 /\ A.bois[i].Tag = "align"
  /\ DOMAIN map = {[WasOn |-> p, Kind |-> "None"], [WasOn |-> Null, Kind |-> "Alignment"]}

-----------------------------------------------------------------------------
(* The claims about the indexed path of getKnowledgeForValue, under SpecUse *)

\* what a bundle says: its kind, its slot 0 and the number in its slot 1
KnowledgeOf(A, BOI) ==
  [AttrKind |-> getAttrKindFromName(BOI.Tag),
   WasOn |-> IF SlotCount(BOI) > 0 THEN Slot(A, BOI, 0) ELSE Null,
   ArgValue |-> IF SlotCount(BOI) > 1 THEN getZExtValue(Slot(A, BOI, 1))
                ELSE [hi |-> 0, lo |-> 0]]

IndexedReturned ==
  call.op = "getKnowledgeForValue" /\ call.hasAC /\ call.pc = "return"

\* the entries of the list that are left when the placeholders and the
\* entries without an assume are skipped
Remaining(Elems) ==
  {j \in 1..Len(Elems) : Elems[j].Assume # 0 /\ Elems[j].Index # ExprResultIdx}

EntryKnowledge(e) == KnowledgeOf(ir[e.Assume], ir[e.Assume].bois[e.Index + 1])

\* the caller's Filter says true on the bundle of entry e
Accepts(F, e) == e.Assume \in F.okInsts /\ e.Index + 1 \in F.okBundles

\* C14 as stated: the indexed path returns the knowledge of the first entry,
\* placeholders and entries without an assume apart, whose kind is among
\* AttrKinds and on which Filter says true, and none() exactly when there is
\* no such entry.
C14_FirstWantedAndAccepted ==
  IndexedReturned =>
    LET Elems == ac[call.V]
        Sat == {j \in Remaining(Elems) :
                  /\ EntryKnowledge(Elems[j]).AttrKind \in call.AttrKinds
                  /\ Accepts(call.F, Elems[j])}
    IN IF Sat = {} THEN call.rk = none
       ELSE /\ call.rk = EntryKnowledge(Elems[FirstOf(Sat)])
            /\ call.from = [Assume |-> Elems[FirstOf(Sat)].Assume,
                            Bundle |-> Elems[FirstOf(Sat)].Index + 1]

\* C14, amended: the indexed path, when it returns, returns the knowledge of
\* the first entry, placeholders and entries without an assume apart, whose
\* kind is not None and is among AttrKinds and on which Filter says true, and
\* none() exactly when there is no such entry.
C14_FirstKnownWantedAndAccepted ==
  IndexedReturned =>
    LET Elems == ac[call.V]
        Sat == {j \in Remaining(Elems) :
                  /\ EntryKnowledge(Elems[j]).AttrKind # "None"
                  /\ EntryKnowledge(Elems[j]).AttrKind \in call.AttrKinds
                  /\ Accepts(call.F, Elems[j])}
    IN IF Sat = {} THEN call.rk = none
       ELSE /\ call.rk = EntryKnowledge(Elems[FirstOf(Sat)])
            /\ call.rk # none
            /\ call.from = [Assume |-> Elems[FirstOf(Sat)].Assume,
                            Bundle |-> Elems[FirstOf(Sat)].Index + 1]

\* the knowledge returned is of an entry that comes after an entry without an
\* assume, a placeholder and an entry of a wanted kind that Filter rejected
C14_Witness ==
  /\ IndexedReturned /\ call.rk # none
  /\ LET Elems == ac[call.V]
     IN \E f \in Remaining(Elems) :
          /\ call.from = [Assume |-> Elems[f].Assume, Bundle |-> Elems[f].Index + 1]
          /\ \E j \in 1..(f - 1) : Elems[j].Assume = 0
          /\ \E j \in 1..(f - 1) : Elems[j].Assume # 0 /\ Elems[j].Index = ExprResultIdx
          /\ \E j \in Remaining(Elems) :
               /\ j < f
               /\ EntryKnowledge(Elems[j]).AttrKind \in call.AttrKinds
               /\ ~Accepts(call.F, Elems[j])

-----------------------------------------------------------------------------
(* The claims about getKnowledgeValidInContext, under SpecUse *)

ValidInContextReturned ==
  call.op = "getKnowledgeValidInContext" /\ call.pc = "return"

\* the bundles the query comes to: those of the entries of the list, or those
\* of the uses of V by an assume of which V is not the condition
Candidates ==
  IF call.hasAC
  THEN {[Assume |-> ac[call.V][j].Assume, Bundle |-> ac[call.V][j].Index + 1] :
          j \in Remaining(ac[call.V])}
  ELSE UNION {{[Assume |-> uses[call.V][j].User, Bundle |-> i] :
                  i \in Owning(ir[uses[call.V][j].User], uses[call.V][j].OperandNo)} :
                j \in {x \in 1..Len(uses[call.V]) :
                         /\ ir[uses[call.V][x].User].ID = "assume"
                         /\ ir[uses[call.V][x].User].ops[1] # call.V}}

WantedCandidates ==
  {c \in Candidates :
     getAttrKindFromName(ir[c.Assume].bois[c.Bundle].Tag) \in call.AttrKinds \ {"None"}}

\* C15: getKnowledgeValidInContext returns knowledge only of an assume that the
\* oracle, asked about that assume at CtxI, found valid; it returns none()
\* when the oracle finds no candidate of a wanted kind valid, and knowledge
\* when it finds one valid: nothing else decides.
C15_OnlyWhatTheOracleAccepts ==
  ValidInContextReturned =>
    /\ call.rk # none =>
         /\ isValidAssumeForContext(call.from.Assume, call.CtxI, call.DT)
         /\ call.from \in WantedCandidates
         /\ call.filterCalls[Len(call.filterCalls)] = call.from
    /\ call.rk = none <=>
         \A c \in WantedCandidates : ~isValidAssumeForContext(c.Assume, call.CtxI, call.DT)
    /\ \A k \in 1..Len(call.filterCalls) :
         /\ call.filterCalls[k] \in WantedCandidates
         /\ k < Len(call.filterCalls) =>
              ~isValidAssumeForContext(call.filterCalls[k].Assume, call.CtxI, call.DT)

\* the oracle has rejected a bundle of a wanted kind, of the first assume, and
\* accepted the bundle of the second that the knowledge is of
C15_Witness ==
  /\ ValidInContextReturned /\ call.rk # none
  /\ Len(call.filterCalls) >= 2
  /\ call.filterCalls[1].Assume = 1
  /\ call.from.Assume = 2

-----------------------------------------------------------------------------
(* The callers of the bundle accessors and of the queries on one assume *)

\* the largest number of bundles on the assume these queries look at, and the
\* largest slot index asked for
MaxQueryBundles == 2
MaxIdx == 3

\* the bundles of that assume: without a slot, with a WasOn, with an Argument
\* below and above 2^32, with an operand that is no constant in the Argument
\* slot, and with a third slot
QueryBundles ==
  {[Tag |-> t, Inputs |-> in] :
     t \in Tags,
     in \in {<<>>, <<p>>, <<p, ConstantInt(0, 2)>>, <<p, ConstantInt(1, 1)>>,
             <<p, q>>, <<q, ConstantInt(0, 0), p>>}}

InitBundle ==
  /\ ir \in {<<MkAssume(TrueCond, bs), OtherUser>> :
               bs \in SeqUpTo(QueryBundles, MaxQueryBundles)}
  /\ uses = <<>>
  /\ ac = <<>>
  /\ call = NoCall
  /\ outArgVal = SlotBefore
  /\ map = EmptyMap

CallBundleHasArgument ==
  /\ call.pc = "idle"
  /\ \E i \in 1..Len(ir[1].bois), Idx \in 0..MaxIdx :
       call' = [op |-> "bundleHasArgument", pc |-> "return", Assume |-> 1,
                Bundle |-> i, Idx |-> Idx,
                ret |-> bundleHasArgument(ir[1].bois[i], Idx)]
  /\ UNCHANGED <<ir, uses, ac, outArgVal, map>>

CallGetValueFromBundleOpInfo ==
  /\ call.pc = "idle"
  /\ \E i \in 1..Len(ir[1].bois), Idx \in 0..MaxIdx :
       LET v == getValueFromBundleOpInfo(ir[1], ir[1].bois[i], Idx)
       IN call' = [op |-> "getValueFromBundleOpInfo",
                   pc |-> IF v = AssertFail THEN "fatal" ELSE "return",
                   Assume |-> 1, Bundle |-> i, Idx |-> Idx, ret |-> v]
  /\ UNCHANGED <<ir, uses, ac, outArgVal, map>>

CallGetKnowledgeFromBundle ==
  /\ call.pc = "idle"
  /\ \E i \in 1..Len(ir[1].bois) :
       call' = [op |-> "getKnowledgeFromBundle",
                pc |-> IF getKnowledgeFromBundleFails(ir[1], ir[1].bois[i])
                       THEN "fatal" ELSE "return",
                Assume |-> 1, Bundle |-> i,
                rk |-> IF getKnowledgeFromBundleFails(ir[1], ir[1].bois[i])
                       THEN none ELSE getKnowledgeFromBundle(ir[1], ir[1].bois[i])]
  /\ UNCHANGED <<ir, uses, ac, outArgVal, map>>

CallGetKnowledgeFromOperandInAssume ==
  /\ call.pc = "idle"
  /\ \E a \in 1..2 : \E Idx \in 0..(Len(ir[a].ops) - 1) :
       LET r == getKnowledgeFromOperandInAssume(ir[a], Idx)
       IN call' = [op |-> "getKnowledgeFromOperandInAssume", pc |-> r.pc,
                   Assume |-> a, Idx |-> Idx, rk |-> r.rk]
  /\ UNCHANGED <<ir, uses, ac, outArgVal, map>>

CallIsAssumeWithEmptyBundle ==
  /\ call.pc = "idle"
  /\ \E a \in 1..2 :
       LET r == isAssumeWithEmptyBundle(ir[a])
       IN call' = [op |-> "isAssumeWithEmptyBundle", pc |-> r.pc, Assume |-> a,
                   ret |-> r.ret]
  /\ UNCHANGED <<ir, uses, ac, outArgVal, map>>

NextBundle ==
  \/ CallBundleHasArgument
  \/ CallGetValueFromBundleOpInfo
  \/ CallGetKnowledgeFromBundle
  \/ CallGetKnowledgeFromOperandInAssume
  \/ CallIsAssumeWithEmptyBundle

SpecBundle == InitBundle /\ [][NextBundle]_vars

-----------------------------------------------------------------------------
(* The claims about the queries on one assume, under SpecBundle *)

CalledBundle == ir[call.Assume].bois[call.Bundle]

\* C16: getKnowledgeFromBundle returns for a bundle of any number of slots
\* (it is fatal only on an Argument operand that is no integer constant):
\* AttrKind is what the tag decodes to, None for an unknown tag, with the other
\* fields set all the same; WasOn is slot 0 exactly when there is a slot;
\* ArgValue is slot 1 exactly when there are two slots, and 0 otherwise.
C16_KnowledgeOfAnyBundle ==
  call.op = "getKnowledgeFromBundle" =>
    LET A == ir[call.Assume]
        B == CalledBundle
    IN /\ call.pc = "fatal" <=> MalformedArgument(A, B)
       /\ call.pc = "return" =>
            /\ call.rk.AttrKind = getAttrKindFromName(B.Tag)
            /\ call.rk.WasOn = (IF SlotCount(B) > 0 THEN Slot(A, B, 0) ELSE Null)
            /\ call.rk.ArgValue = (IF SlotCount(B) > 1 THEN getZExtValue(Slot(A, B, 1))
                                   ELSE [hi |-> 0, lo |-> 0])

\* the knowledge of a bundle with an unknown tag and two slots: the kind is
\* None, WasOn and ArgValue are set
C16_Witness ==
  /\ call.op = "getKnowledgeFromBundle" /\ call.pc = "return"
  /\ CalledBundle.Tag = IgnoreBundleTag /\ SlotCount(CalledBundle) = 2
  /\ call.rk.AttrKind = "None" /\ call.rk.WasOn = p
  /\ call.rk.ArgValue = [hi |-> 1, lo |-> 1]

\* C17: isAssumeWithEmptyBundle returns true exactly when every bundle of the
\* assume has the tag "ignore": true without a bundle, false with one bundle
\* of another tag, wherever it stands.
C17_TrueIffAllIgnore ==
  (call.op = "isAssumeWithEmptyBundle" /\ ir[call.Assume].ID = "assume") =>
    /\ call.pc = "return"
    /\ call.ret <=> \A i \in 1..Len(ir[call.Assume].bois) :
                      ir[call.Assume].bois[i].Tag = IgnoreBundleTag

\* false for an assume whose first bundle is an "ignore" and whose last is not
C17_Witness ==
  /\ call.op = "isAssumeWithEmptyBundle" /\ call.pc = "return" /\ ~call.ret
  /\ LET Bs == ir[call.Assume].bois
     IN Len(Bs) >= 2 /\ Bs[1].Tag = IgnoreBundleTag /\ Bs[Len(Bs)].Tag # IgnoreBundleTag

\* C18: bundleHasArgument(B, Idx) holds exactly when B has more than Idx
\* slots; getValueFromBundleOpInfo(Assume, B, Idx) returns operand
\* B.Begin + Idx of the assume when it holds, and is fatal when it does not.
C18_ValueAtSlot ==
  /\ call.op = "bundleHasArgument" =>
       /\ call.pc = "return"
       /\ call.ret <=> SlotCount(CalledBundle) > call.Idx
  /\ call.op = "getValueFromBundleOpInfo" =>
       IF SlotCount(CalledBundle) > call.Idx
       THEN /\ call.pc = "return"
            /\ call.ret = ir[call.Assume].ops[CalledBundle.Begin + call.Idx + 1]
       ELSE call.pc = "fatal"

\* slot 2 of the second bundle of the assume has been read
C18_Witness ==
  /\ call.op = "getValueFromBundleOpInfo" /\ call.pc = "return"
  /\ call.Bundle = 2 /\ call.Idx = 2
  /\ CalledBundle.Begin > 1
  /\ call.ret = p

-----------------------------------------------------------------------------
(* The claim about the missing Argument, under SpecHas *)

\* the call asks for the Argument of an attribute that has one, and the first
\* bundle that matches has no Argument slot
FirstMatchWithoutArgument ==
  /\ call.op = "hasAttributeInAssume" /\ call.wantArg
  /\ isExistingAttribute(call.AttrName)
  /\ doesAttrKindHaveArgument(getAttrKindFromName(call.AttrName))
  /\ LET M == Matching(ir[call.Assume], call.IsOn, call.AttrName)
     IN M # {} /\ SlotCount(ir[call.Assume].bois[FirstOf(M)]) <= 1

\* C19: hasAttributeInAssume, asked for the Argument, ends fatally, with the
\* output slot as it was and nothing returned, when the first bundle that
\* matches has no Argument slot, also when a later matching bundle has one.
C19_FatalOnMissingArgument ==
  FirstMatchWithoutArgument =>
    /\ call.pc = "fatal"
    /\ outArgVal = SlotBefore

\* the first matching bundle has no Argument slot and a later one has
C19_Witness ==
  /\ FirstMatchWithoutArgument
  /\ call.pc = "fatal"
  /\ LET M == Matching(ir[call.Assume], call.IsOn, call.AttrName)
     IN \E j \in M : j > FirstOf(M) /\ SlotCount(ir[call.Assume].bois[j]) > 1

-----------------------------------------------------------------------------
(* Every operation, on one function with its use lists, its cache and a map *)

\* the largest number of bundles on the first assume of that function
MaxAllBundles == 1

\* a whole run of fillMapFromAssume over an assume with well-formed bundles
RECURSIVE RunFill(_, _, _, _)
RunFill(Result, Assume, a, i) ==
  IF i > Len(Assume.bois) THEN Result
  ELSE RunFill(FillBundle(Result, Assume, a, Assume.bois[i]), Assume, a, i + 1)

\* the map of the caller is empty or as a run over the second assume left it
InitAll ==
  /\ ir \in {<<MkAssume(cond, bs), other, OtherUser>> :
               cond \in {TrueCond, q}, bs \in SeqUpTo(UseBundles, MaxAllBundles),
               other \in UseOtherAssumes}
  /\ \E order \in {"newest", "oldest"} :
       uses = [V \in ValuesOf(ir) \cup QueryValues |-> ListUses(UsesOf(ir, V), order)]
  /\ \E mode \in {"exact", "cache"} :
       ac = [V \in QueryValues |-> assumptionsFor(ir, V, mode)]
  /\ call = [op |-> "none", pc |-> "idle", n |-> 0, Assume |-> 0]
  /\ outArgVal = SlotBefore
  /\ map \in {EmptyMap, RunFill(EmptyMap, ir[2], 2, 1)}

NextAll ==
  \/ NextHas
  \/ NextFill
  \/ NextUse
  \/ NextBundle

SpecAll == InitAll /\ [][NextAll]_vars

\* C20: no operation changes an assume, a bundle, an operand, a use list or
\* the list of the cache; only fillMapFromAssume changes the map, and only
\* hasAttributeInAssume writes to the output slot.
C20_ReadOnly ==
  [][/\ ir' = ir /\ uses' = uses /\ ac' = ac
     /\ call'.op # "fillMapFromAssume" => map' = map
     /\ call'.op # "hasAttributeInAssume" => outArgVal' = outArgVal]_vars

\* a query has returned knowledge with the map of an earlier run in place
C20_Witness ==
  /\ call.op = "getKnowledgeForValue" /\ call.pc = "return" /\ call.rk # none
  /\ map # EmptyMap

-----------------------------------------------------------------------------
(* The claims about the two paths of getKnowledgeForValue, under SpecUse *)

\* the bundles that the loop over the list of the cache comes to, in order
RECURSIVE IndexSeq(_, _)
IndexSeq(Elems, i) ==
  IF i > Len(Elems) THEN <<>>
  ELSE (IF i \in Remaining(Elems)
        THEN <<[Assume |-> Elems[i].Assume, Bundle |-> Elems[i].Index + 1]>>
        ELSE <<>>) \o IndexSeq(Elems, i + 1)

\* the bundles that the loop over the uses comes to, in order: those that own
\* a use by an assume whose condition is not the used value
RECURSIVE UseSeq(_, _)
UseSeq(Us, i) ==
  IF i > Len(Us) THEN <<>>
  ELSE (IF /\ ir[Us[i].User].ID = "assume"
           /\ ir[Us[i].User].ops[1] # Get(ir, Us[i])
           /\ Owning(ir[Us[i].User], Us[i].OperandNo) # {}
        THEN <<[Assume |-> Us[i].User,
                Bundle |-> CHOOSE b \in Owning(ir[Us[i].User], Us[i].OperandNo) : TRUE]>>
        ELSE <<>>) \o UseSeq(Us, i + 1)

KindOfBundle(c) == getAttrKindFromName(ir[c.Assume].bois[c.Bundle].Tag)

\* c is of a kind asked for, and the Filter of the caller says true on it
Qualifies(c, AttrKinds, F) ==
  /\ KindOfBundle(c) \in AttrKinds \ {"None"}
  /\ c.Assume \in F.okInsts /\ c.Bundle \in F.okBundles

\* the bundles of the path that the call takes
PathSeq ==
  IF call.hasAC THEN IndexSeq(ac[call.V], 1) ELSE UseSeq(uses[call.V], 1)

\* C21: whether a cache is given is all that chooses the path.  With a cache,
\* the outcome is that of the list of the cache alone: none() when no entry
\* qualifies, whatever the uses of V hold; without one, it is that of the uses
\* alone.  Filter is asked, and a cast can fail, only on bundles of that path.
C21_PathByCacheOnly ==
  call.op = "getKnowledgeForValue" =>
    LET S == PathSeq
        Q == {j \in 1..Len(S) : Qualifies(S[j], call.AttrKinds, call.F)}
    IN /\ call.pc = "return" =>
            IF Q = {} THEN call.rk = none /\ call.from = NoFrom
            ELSE /\ call.from = S[FirstOf(Q)]
                 /\ call.rk = KnowledgeOf(ir[call.from.Assume],
                                          ir[call.from.Assume].bois[call.from.Bundle])
       /\ \A k \in 1..Len(call.filterCalls) :
            \E j \in 1..Len(S) : S[j] = call.filterCalls[k]
       /\ call.pc = "fatal" =>
            \E j \in 1..Len(S) :
              MalformedArgument(ir[S[j].Assume], ir[S[j].Assume].bois[S[j].Bundle])

\* with a cache, none() is returned though a use of V is in a bundle of a
\* wanted kind that the Filter accepts
C21_Witness ==
  /\ call.op = "getKnowledgeForValue" /\ call.pc = "return" /\ call.hasAC
  /\ call.rk = none
  /\ LET U == UseSeq(uses[call.V], 1)
     IN \E j \in 1..Len(U) : Qualifies(U[j], call.AttrKinds, call.F)

\* the bundles of S, from j on, on which Filter is to be asked: those of a
\* wanted kind other than None, as far as the first on which it says true
RECURSIVE ExpectedFilterCalls(_, _, _, _)
ExpectedFilterCalls(S, j, AttrKinds, F) ==
  IF j > Len(S) THEN <<>>
  ELSE IF KindOfBundle(S[j]) \notin AttrKinds \ {"None"}
  THEN ExpectedFilterCalls(S, j + 1, AttrKinds, F)
  ELSE IF S[j].Assume \in F.okInsts /\ S[j].Bundle \in F.okBundles
  THEN <<S[j]>>
  ELSE <<S[j]>> \o ExpectedFilterCalls(S, j + 1, AttrKinds, F)

\* C23: in a call of getKnowledgeForValue that returns, Filter is asked on the
\* candidates whose kind is not None and is among AttrKinds, once each, in the
\* order of the scan, and not after the first on which it says true, which is
\* the one returned; a candidate of kind None is passed without a call of
\* Filter, also when None is among AttrKinds.
C23_FilterCallsInOrder ==
  (call.op = "getKnowledgeForValue" /\ call.pc = "return") =>
    /\ call.filterCalls = ExpectedFilterCalls(PathSeq, 1, call.AttrKinds, call.F)
    /\ \A k \in 1..Len(call.filterCalls) :
         /\ KindOfBundle(call.filterCalls[k]) # "None"
         /\ KindOfBundle(call.filterCalls[k]) \in call.AttrKinds
    /\ call.rk # none => call.from = call.filterCalls[Len(call.filterCalls)]

\* None is among AttrKinds, a candidate of kind None was passed, Filter was
\* asked on one candidate and said true, and a wanted candidate comes after it
C23_Witness ==
  /\ call.op = "getKnowledgeForValue" /\ call.pc = "return" /\ call.rk # none
  /\ "None" \in call.AttrKinds
  /\ Len(call.filterCalls) = 1
  /\ LET S == PathSeq
     IN /\ \E j \in 1..Len(S) : KindOfBundle(S[j]) = "None"
        /\ \E j, k \in 1..Len(S) :
             /\ j < k /\ S[j] = call.from
             /\ KindOfBundle(S[k]) \in call.AttrKinds \ {"None"}

\* C24: the knowledge that getKnowledgeForValue returns for V, when it is not
\* none(), has WasOn = V, with a cache and without one, also when V is in a
\* bundle only in a slot other than the first.
C24_WasOnIsV ==
  (call.op = "getKnowledgeForValue" /\ call.pc = "return" /\ call.rk # none) =>
    call.rk.WasOn = call.V

\* C25: on a use whose user is an assume, getBundleFromUse returns the nullptr
\* or asks for the bundle of an operand that a bundle owns: it does not ask
\* about the condition or the callee, so that the lookup is never fatal.
C25_LookupInsideABundle ==
  (call.op = "getBundleFromUse" /\ ir[call.U.User].ID = "assume") =>
    /\ call.pc = "return"
    /\ call.Bundle # 0 => call.Bundle \in Owning(ir[call.U.User], call.U.OperandNo)

-----------------------------------------------------------------------------
(* The frame of a run of fillMapFromAssume, under SpecFill *)

\* the keys of the bundles of Assume that are not skipped
KeysOf(Assume) ==
  {K \in {[WasOn |-> IF SlotCount(Assume.bois[i]) > 0
                     THEN Slot(Assume, Assume.bois[i], 0) ELSE Null,
           Kind |-> getAttrKindFromName(Assume.bois[i].Tag)] :
            i \in 1..Len(Assume.bois)} : NonEmptyKey(K)}

\* C26: a run of fillMapFromAssume over A changes only map[K][A] for keys K of
\* bundles of A: the (Min, Max) of every other assume and the entries of every
\* other key are after the run (and at every point of it, a fatal end
\* included) what they were before it, no key is lost, and no key is left with
\* an empty inner map.
C26_OnlyOwnEntries ==
  call.op = "fillMapFromAssume" =>
    LET A == call.Assume
        old == call.startMap
    IN /\ DOMAIN old \subseteq DOMAIN map
       /\ DOMAIN map \subseteq DOMAIN old \cup KeysOf(ir[A])
       /\ \A K \in DOMAIN map :
            /\ DOMAIN map[K] # {}
            /\ \A a \in 1..Len(ir) :
                 (a # A \/ K \notin KeysOf(ir[A])) =>
                   /\ Seen(map, K, a) <=> Seen(old, K, a)
                   /\ Seen(old, K, a) => map[K][a] = old[K][a]

\* the run over the first assume has made an entry under a key that held the
\* entry of the second assume, and has made a new key
C26_Witness ==
  /\ FillReturned /\ call.Assume = 1
  /\ \E K \in DOMAIN call.startMap :
       /\ Seen(call.startMap, K, 2) /\ ~Seen(call.startMap, K, 1)
       /\ Seen(map, K, 1) /\ map[K][1] # map[K][2]
  /\ \E K \in DOMAIN map : K \notin DOMAIN call.startMap

-----------------------------------------------------------------------------
(* Two unsynchronized invocations of fillMapFromAssume on one map *)

\* the most bundles of the assume that the two invocations run over
MaxRaceBundles == 3

\* bundles with one key and different arguments
RaceBundles ==
  {[Tag |-> "align", Inputs |-> <<p, ConstantInt(0, l)>>] : l \in 0..MaxLo}

\* an invocation at the top of the iteration over bundle i
AtFind(i) == [i |-> i, pc |-> "find", tmp |-> 0]

InitRace ==
  /\ ir \in {<<MkAssume(TrueCond, bs)>> :
               bs \in SeqUpTo(RaceBundles, MaxRaceBundles) \ {<<>>}}
  /\ uses = <<>>
  /\ ac = <<>>
  /\ call = [op |-> "fillMapFromAssume", pc |-> "race",
             t |-> <<AtFind(1), AtFind(1)>>, overlap |-> FALSE]
  /\ outArgVal = SlotBefore
  /\ map = EmptyMap

\* the bundle, the key and the Val of invocation k
RaceBOI(k) == ir[1].bois[call.t[k].i]
RaceKey(k) == KeyOf(ir[1], RaceBOI(k))
RaceVal(k) ==
  ToUnsigned(getZExtValue(getValueFromBundleOpInfo(ir[1], RaceBOI(k), ABA_Argument)))

\* the other invocation is in the middle of its run
OtherRunning(k) ==
  LET o == call.t[3 - k]
  IN o.pc # "done" /\ o # AtFind(1)

\* invocation k goes on with pc and tmp, or to its next bundle
RaceGoes(k, pc, tmp) ==
  call' = [call EXCEPT !.t[k] = [i |-> call.t[k].i, pc |-> pc, tmp |-> tmp],
                       !.overlap = call.overlap \/ OtherRunning(k)]
RaceNext(k) ==
  call' = [call EXCEPT !.t[k] = IF call.t[k].i = Len(ir[1].bois)
                                THEN [i |-> call.t[k].i, pc |-> "done", tmp |-> 0]
                                ELSE AtFind(call.t[k].i + 1),
                       !.overlap = call.overlap \/ OtherRunning(k)]

\* Result.find(Key) and count(&Assume)
RaceFind(k) ==
  /\ call.pc = "race" /\ call.t[k].pc = "find"
  /\ RaceGoes(k, IF Seen(map, RaceKey(k), 1) THEN "readMin" ELSE "insert", 0)
  /\ UNCHANGED <<ir, uses, ac, outArgVal, map>>

\* Result[Key][&Assume] = {Val, Val}
RaceInsert(k) ==
  /\ call.pc = "race" /\ call.t[k].pc = "insert"
  /\ map' = Put(map, RaceKey(k), 1, [Min |-> RaceVal(k), Max |-> RaceVal(k)])
  /\ RaceNext(k)
  /\ UNCHANGED <<ir, uses, ac, outArgVal>>

\* the read of Min in std::min(Val, Lookup->second[&Assume].Min)
RaceReadMin(k) ==
  /\ call.pc = "race" /\ call.t[k].pc = "readMin"
  /\ RaceGoes(k, "writeMin", map[RaceKey(k)][1].Min)
  /\ UNCHANGED <<ir, uses, ac, outArgVal, map>>

\* a mutant of RaceWriteMin: Val is stored whatever Min was
RaceWriteMinUnconditional(k) ==
  /\ call.pc = "race" /\ call.t[k].pc = "writeMin"
  /\ map' = Put(map, RaceKey(k), 1, [map[RaceKey(k)][1] EXCEPT !.Min = RaceVal(k)])
  /\ RaceGoes(k, "readMax", 0)
  /\ UNCHANGED <<ir, uses, ac, outArgVal>>

\* the assignment to Lookup->second[&Assume].Min
RaceWriteMin(k) ==
  /\ call.pc = "race" /\ call.t[k].pc = "writeMin"
  /\ map' = Put(map, RaceKey(k), 1,
                [map[RaceKey(k)][1] EXCEPT !.Min = uMin(RaceVal(k), call.t[k].tmp)])
  /\ RaceGoes(k, "readMax", 0)
  /\ UNCHANGED <<ir, uses, ac, outArgVal>>

\* the read of Max in std::max(Val, Lookup->second[&Assume].Max)
RaceReadMax(k) ==
  /\ call.pc = "race" /\ call.t[k].pc = "readMax"
  /\ RaceGoes(k, "writeMax", map[RaceKey(k)][1].Max)
  /\ UNCHANGED <<ir, uses, ac, outArgVal, map>>

\* the assignment to Lookup->second[&Assume].Max
RaceWriteMax(k) ==
  /\ call.pc = "race" /\ call.t[k].pc = "writeMax"
  /\ map' = Put(map, RaceKey(k), 1,
                [map[RaceKey(k)][1] EXCEPT !.Max = uMax(RaceVal(k), call.t[k].tmp)])
  /\ RaceNext(k)
  /\ UNCHANGED <<ir, uses, ac, outArgVal>>

NextRace ==
  \E k \in 1..2 :
    \/ RaceFind(k)
    \/ RaceInsert(k)
    \/ RaceReadMin(k)
    \/ RaceWriteMin(k)
    \/ RaceReadMax(k)
    \/ RaceWriteMax(k)

SpecRace == InitRace /\ [][NextRace]_vars

RaceDone == call.pc = "race" /\ call.t[1].pc = "done" /\ call.t[2].pc = "done"

\* the map that the two invocations leave when one runs after the other
Sequential == RunFill(RunFill(EmptyMap, ir[1], 1, 1), ir[1], 1, 1)

RaceEntry(M) == M[[WasOn |-> p, Kind |-> "Alignment"]][1]

\* C22: the accumulation is not atomic.  Two invocations of which one runs
\* after the other leave the one (Min, Max) of the sequential run; two
\* invocations that interleave leave a (Min, Max) that may differ from it, and
\* then by an update that is lost: Min is not below, Max not above, the
\* sequential ones.
C22_SequentialOrLostUpdate ==
  RaceDone =>
    /\ ~call.overlap => map = Sequential
    /\ DOMAIN map = DOMAIN Sequential
    /\ RaceEntry(map).Min >= RaceEntry(Sequential).Min
    /\ RaceEntry(map).Max <= RaceEntry(Sequential).Max

\* the two invocations have interleaved and left a (Min, Max) that no
\* sequential run leaves
C22_Witness ==
  /\ RaceDone /\ call.overlap
  /\ RaceEntry(map) # RaceEntry(Sequential)

====
